---- MODULE Spec2Model ----
(***************************************************************************)
(* Model of RefreshScheme (src/src/runtime/schemes/refresh.ts): the        *)
(* validity check, the single-flight refreshTokens() coordinator with its  *)
(* per-caller then/catch/finally continuations and its request body,       *)
(* updateTokens, setUserToken, reset and the expiry callbacks of mounted.  *)
(*                                                                         *)
(* JavaScript runs one job at a time.  A call of refreshTokens() runs to   *)
(* its return without suspension (the body holds no await), so it is one   *)
(* action.  The callbacks attached to the transport promise run later, one *)
(* promise job each, in the order the jobs were queued: `jobs` is that     *)
(* FIFO queue.  The callbacks call out to collaborators (the token stores  *)
(* and their storage, the callOnError handlers) whose own promise jobs,    *)
(* like those of the request interceptors, sit in the same queue among the *)
(* callbacks, and any of them may call refreshTokens(): a call can fall    *)
(* between any two queued callbacks.  setUserToken, reset and the passing  *)
(* of an expiration instant are taken between bursts of promise jobs, when *)
(* the queue is empty.                                                     *)
(*                                                                         *)
(* Three specifications share the actions.  Spec is the scheme with its    *)
(* environment.  FairSpec is the coordinator under the scheduling of the   *)
(* job queue, for what must eventually happen.  CallSpec is one call of a  *)
(* method made in any configuration and any state of the stores, for what  *)
(* a method computes from its arguments.                                   *)
(***************************************************************************)
EXTENDS Integers, Sequences, FiniteSets, TLC

\* ---------------------------------------------------------------- bounds
MaxCallers == 4        \* refreshTokens() invocations in one behaviour
MaxTransports == 3     \* refresh transport calls in one behaviour
MaxEnv == 1            \* setUserToken / reset / expiry events in one behaviour

\* ---------------------------------------------------------------- values
Absent == "absent"     \* false / null / undefined / '': a falsy value
Opaque == "true"       \* boolean true: present but opaque
Truthy(v) == v # Absent
Undefined == "undefined"   \* the value of a body key that was never assigned

\* The responses the refresh endpoint may give: with and without a refresh token.
Responses == {[token |-> "t2", refresh_token |-> "r2"],
              [token |-> "t3", refresh_token |-> Absent]}
NoResponse == [token |-> Absent, refresh_token |-> Absent]
\* The error of a failed transport call is identified by the call.
NoError == [call |-> 0]

CallerIds == 1..MaxCallers
TransportIds == 1..MaxTransports

VARIABLES
    options,          \* this.options (fixed at construction)
    token,            \* this.token: [value, expired]
    refreshToken,     \* this.refreshToken: [value, expired]
    header,           \* requestHandler: the authorization header
    user,             \* $auth user state
    interceptor,      \* requestHandler: request interceptor attached
    refreshRequest,   \* this.refreshRequest: 0 is null, else a transport call
    transports,       \* the calls $auth.request received, by order of issue
    ntransports,      \* how many calls $auth.request received
    callers,          \* the refreshTokens() invocations, by order of call
    ncalls,           \* how many refreshTokens() invocations were made
    jobs,             \* promise job queue: callers whose next callback is queued
    settledSince,     \* a refresh promise settled since the last dispatching call
    nenv,             \* environment events so far
    call              \* the last direct call of check, updateTokens, reset or a
                      \* mount callback: its arguments and its result

vars == <<options, token, refreshToken, header, user, interceptor, refreshRequest,
          transports, ntransports, callers, ncalls, jobs, settledSince, nenv, call>>

stores == <<token, refreshToken, header, user, interceptor>>

\* ---------------------------------------------------------------- token stores
TokenSync(store) == store.value

TokenStatusExpired(store) == store.expired

TokenGet(store) == store.value

TokenSet(v) == [value |-> v, expired |-> FALSE]

TokenReset == [value |-> Absent, expired |-> FALSE]

GetProp(response, property) == response[property]

\* ---------------------------------------------------------------- check
CheckResponse == [valid |-> FALSE, tokenExpired |-> FALSE,
                  refreshTokenExpired |-> FALSE, isRefreshable |-> TRUE]

TokensMissingBoth(tok, rtok) == ~Truthy(tok) /\ ~Truthy(rtok)

TokensMissingToken(tok, rtok) == ~Truthy(tok)

TokensMissing(tok, rtok) == ~Truthy(tok) \/ ~Truthy(rtok)

CheckAlwaysStatus(checkStatus) ==
    LET tok == TokenSync(token)
        rtok == TokenSync(refreshToken)
    IN  IF TokensMissing(tok, rtok) THEN CheckResponse
        ELSE IF TokenStatusExpired(refreshToken)
             THEN [CheckResponse EXCEPT !.refreshTokenExpired = TRUE]
        ELSE IF TokenStatusExpired(token)
             THEN [CheckResponse EXCEPT !.tokenExpired = TRUE]
        ELSE [CheckResponse EXCEPT !.valid = TRUE]

CheckTokenFirst(checkStatus) ==
    LET tok == TokenSync(token)
        rtok == TokenSync(refreshToken)
    IN  IF TokensMissing(tok, rtok) THEN CheckResponse
        ELSE IF ~checkStatus THEN [CheckResponse EXCEPT !.valid = TRUE]
        ELSE IF TokenStatusExpired(token)
             THEN [CheckResponse EXCEPT !.tokenExpired = TRUE]
        ELSE IF TokenStatusExpired(refreshToken)
             THEN [CheckResponse EXCEPT !.refreshTokenExpired = TRUE]
        ELSE [CheckResponse EXCEPT !.valid = TRUE]

Check(checkStatus) ==
    LET tok == TokenSync(token)
        rtok == TokenSync(refreshToken)
    IN  IF TokensMissing(tok, rtok) THEN CheckResponse
        ELSE IF ~checkStatus THEN [CheckResponse EXCEPT !.valid = TRUE]
        ELSE IF TokenStatusExpired(refreshToken)
             THEN [CheckResponse EXCEPT !.refreshTokenExpired = TRUE]
        ELSE IF TokenStatusExpired(token)
             THEN [CheckResponse EXCEPT !.tokenExpired = TRUE]
        ELSE [CheckResponse EXCEPT !.valid = TRUE]

\* ---------------------------------------------------------------- callers
\* One record per refreshTokens() invocation.  pc is the continuation that runs
\* next for it: "wait" (attached, transport call pending), "then", "catch",
\* "finally", "settle" (the returned promise adopts its result), "done".
\* issued: this invocation called $auth.request.
\* kind/response/error are the value the promise chain carries so far and, once
\* pc = "done", the outcome of the promise refreshTokens() returned.
\* updates and reports count the updateTokens and callOnError invocations its
\* callbacks made.
IdleCaller == [pc |-> "idle", att |-> 0, kind |-> "none", response |-> NoResponse,
               error |-> NoError, reported |-> NoError, method |-> "none",
               resets |-> 0, issued |-> FALSE, updates |-> 0, reports |-> 0]

\* body: the request body the call carried.
NoBody == [k \in {} |-> Undefined]

NoTransport == [state |-> "unissued", response |-> NoResponse, error |-> NoError,
                body |-> NoBody]

Settled(t) == transports[t].state \in {"fulfilled", "rejected"}

Outstanding == {t \in TransportIds : transports[t].state = "pending"}

\* The callers of set S in the order they called.
RECURSIVE InOrder(_)
InOrder(S) ==
    IF S = {} THEN <<>>
    ELSE LET m == CHOOSE x \in S : \A y \in S : x <= y
         IN  <<m>> \o InOrder(S \ {m})

\* The options after the defaults are merged in: DEFAULTS of this scheme, and
\* token.required of the local scheme it extends.
DefaultOptions ==
    [endpoints |-> [refresh |-> TRUE],
     token |-> [required |-> TRUE],
     refreshToken |-> [required |-> TRUE, tokenRequired |-> FALSE,
                       data |-> "refresh_token"],
     clientId |-> Absent,
     grantType |-> Absent,
     autoLogout |-> FALSE]

\* The configurations explored: the defaults, the refresh endpoint unset, and
\* every other flag flipped.
Configurations ==
    {DefaultOptions,
     [DefaultOptions EXCEPT !.endpoints.refresh = FALSE],
     [DefaultOptions EXCEPT !.token.required = FALSE,
                            !.refreshToken.required = FALSE,
                            !.refreshToken.tokenRequired = TRUE,
                            !.clientId = "id1",
                            !.grantType = "refresh_token",
                            !.autoLogout = TRUE]}

\* No direct call observed yet.
NoCall == [op |-> "none", checkStatus |-> FALSE, result |-> CheckResponse,
           response |-> NoResponse, isRefreshing |-> FALSE,
           updateOnRefresh |-> FALSE, resetInterceptor |-> FALSE]

\* The scheme after construction and mounting: the stores hold what persistence
\* held, no refresh is in flight.
Init ==
    /\ options \in Configurations
    /\ token \in {TokenReset, TokenSet("t1")}
    /\ refreshToken \in {TokenReset, TokenSet("r1")}
    /\ header = token.value
    /\ user = Truthy(token.value)
    /\ interceptor = TRUE
    /\ refreshRequest = 0
    /\ transports = [t \in TransportIds |-> NoTransport]
    /\ ntransports = 0
    /\ callers = [c \in CallerIds |-> IdleCaller]
    /\ ncalls = 0
    /\ jobs = <<>>
    /\ settledSince = FALSE
    /\ nenv = 0
    /\ call = NoCall

\* ---------------------------------------------------------------- reset
SchemeResetKeepsRefreshToken(resetInterceptor) ==
    /\ user' = FALSE
    /\ token' = TokenReset
    /\ refreshToken' = refreshToken
    /\ interceptor' = IF resetInterceptor THEN FALSE ELSE interceptor

SchemeReset(resetInterceptor) ==
    /\ user' = FALSE
    /\ token' = TokenReset
    /\ refreshToken' = TokenReset
    /\ interceptor' = IF resetInterceptor THEN FALSE ELSE interceptor

\* this.$auth.reset(): the session manager's reset, which resets the scheme.
AuthReset == SchemeReset(TRUE)

\* ---------------------------------------------------------------- updateTokens
RotateRefreshTokenAlways(rtok, isRefreshing, updateOnRefresh) == Truthy(rtok)

RotateRefreshToken(rtok, isRefreshing, updateOnRefresh) ==
    Truthy(rtok) /\ (~isRefreshing \/ (isRefreshing /\ updateOnRefresh))

UpdateTokensTokenUnread(response) == Opaque

UpdateTokensToken(response) ==
    IF options.token.required THEN GetProp(response, "token") ELSE Opaque

UpdateTokensRefreshTokenUnread(response) == Opaque

UpdateTokensRefreshToken(response) ==
    IF options.refreshToken.required THEN GetProp(response, "refresh_token") ELSE Opaque

\* The stores after updateTokens(response, {isRefreshing, updateOnRefresh}).
UpdateTokens(response, isRefreshing, updateOnRefresh) ==
    LET tok == UpdateTokensToken(response)
        rtok == UpdateTokensRefreshToken(response)
    IN  [token |-> TokenSet(tok),
         header |-> tok,
         refreshToken |-> IF RotateRefreshToken(rtok, isRefreshing, updateOnRefresh)
                          THEN TokenSet(rtok)
                          ELSE refreshToken]

\* ---------------------------------------------------------------- refreshTokens
RefreshDisabledNever == FALSE

RefreshDisabled == ~options.endpoints.refresh

TokensUnavailable == ~Check(FALSE).valid

RefreshExpiredByToken == TokenStatusExpired(token)

RefreshExpired == TokenStatusExpired(refreshToken)

\* The first reaction of the chain that runs a callback: a fulfilment runs the
\* then-callback and passes .catch untouched, a rejection passes .then untouched
\* and runs the catch-callback.
Reaction(state) == IF state = "fulfilled" THEN "then" ELSE "catch"

\* The request body: client_id and grant_type start undefined, the configured
\* keys are assigned, cleanObj drops the keys left undefined.
Assign(obj, key, value) ==
    [k \in (DOMAIN obj) \cup {key} |-> IF k = key THEN value ELSE obj[k]]

CleanObj(obj) == [k \in {x \in DOMAIN obj : obj[x] # Undefined} |-> obj[k]]

EmptyBody == [client_id |-> Undefined, grant_type |-> Undefined]

BodyRefreshToken(body) ==
    IF options.refreshToken.required /\ Truthy(options.refreshToken.data)
    THEN Assign(body, options.refreshToken.data, TokenGet(refreshToken))
    ELSE body

BodyClientIdAlways(body) == Assign(body, "client_id", options.clientId)

BodyClientId(body) ==
    IF Truthy(options.clientId)
    THEN Assign(body, "client_id", options.clientId)
    ELSE body

BodyGrantType(body) ==
    IF Truthy(options.grantType)
    THEN Assign(body, "grant_type", "refresh_token")
    ELSE body

RequestBody == CleanObj(BodyGrantType(BodyClientId(BodyRefreshToken(EmptyBody))))

\* this.refreshRequest || this.$auth.request(...): fresh is the call that
\* $auth.request would return.
SharedRequest(slot, fresh) == IF slot # 0 THEN slot ELSE fresh

\* Refresh endpoint is disabled: return Promise.resolve().  The outcome of the
\* returned promise is fixed at the return.
RefreshTokensDisabled ==
    /\ ncalls < MaxCallers
    /\ RefreshDisabled
    /\ callers' = [callers EXCEPT ![ncalls + 1] =
                     [IdleCaller EXCEPT !.pc = "done", !.kind = "undefined"]]
    /\ jobs' = jobs
    /\ ncalls' = ncalls + 1
    /\ UNCHANGED <<call, options, stores, refreshRequest, transports, ntransports,
                   settledSince, nenv>>

\* Token or refresh token not available: return Promise.resolve().
RefreshTokensUnavailable ==
    /\ ncalls < MaxCallers
    /\ ~RefreshDisabled
    /\ TokensUnavailable
    /\ callers' = [callers EXCEPT ![ncalls + 1] =
                     [IdleCaller EXCEPT !.pc = "done", !.kind = "undefined"]]
    /\ jobs' = jobs
    /\ ncalls' = ncalls + 1
    /\ UNCHANGED <<call, options, stores, refreshRequest, transports, ntransports,
                   settledSince, nenv>>

\* Refresh token is expired: $auth.reset(), throw ExpiredAuthSessionError.
\* The throw rejects the promise of the async function before it returns.
RefreshTokensExpired ==
    /\ ncalls < MaxCallers
    /\ ~RefreshDisabled
    /\ ~TokensUnavailable
    /\ RefreshExpired
    /\ AuthReset
    /\ callers' = [callers EXCEPT ![ncalls + 1] =
                     [IdleCaller EXCEPT !.pc = "done", !.kind = "expired",
                                        !.resets = 1]]
    /\ ncalls' = ncalls + 1
    /\ UNCHANGED <<call, options, header, refreshRequest, transports, ntransports,
                   jobs, settledSince, nenv>>

\* The request is dispatched: clear the header, take the shared call or issue
\* one, attach then/catch/finally to it.
RefreshTokensDispatch ==
    /\ ncalls < MaxCallers
    /\ ~RefreshDisabled
    /\ ~TokensUnavailable
    /\ ~RefreshExpired
    /\ SharedRequest(refreshRequest, ntransports + 1) <= MaxTransports
    /\ header' = IF ~options.refreshToken.tokenRequired THEN Absent ELSE header
    /\ LET c == ncalls + 1
           t == SharedRequest(refreshRequest, ntransports + 1)
           isNew == t > ntransports
       IN  /\ refreshRequest' = t
           /\ ntransports' = IF isNew THEN t ELSE ntransports
           /\ transports' = IF isNew
                            THEN [transports EXCEPT ![t].state = "pending",
                                                    ![t].body = RequestBody]
                            ELSE transports
           /\ callers' = [callers EXCEPT ![c] =
                            [IdleCaller EXCEPT
                               !.pc = IF ~isNew /\ Settled(t)
                                      THEN Reaction(transports[t].state) ELSE "wait",
                               !.att = t, !.issued = isNew]]
           /\ jobs' = IF ~isNew /\ Settled(t) THEN Append(jobs, c) ELSE jobs
    /\ ncalls' = ncalls + 1
    /\ settledSince' = FALSE
    /\ UNCHANGED <<call, options, token, refreshToken, user, interceptor, nenv>>

\* ---------------------------------------------------------------- transport
\* The transport collaborator settles a pending call; the then-reactions of the
\* callers attached to it are queued in the order they attached.
Attached(t) == {c \in CallerIds : callers[c].pc = "wait" /\ callers[c].att = t}

TransportSettle(t, outcome) ==
    /\ transports[t].state = "pending"
    /\ transports' = [transports EXCEPT ![t].state = outcome.state,
                                        ![t].response = outcome.response,
                                        ![t].error = outcome.error]
    /\ callers' = [c \in CallerIds |->
                     IF c \in Attached(t)
                     THEN [callers[c] EXCEPT !.pc = Reaction(outcome.state)]
                     ELSE callers[c]]
    /\ jobs' = jobs \o InOrder(Attached(t))
    /\ UNCHANGED <<call, options, stores, refreshRequest, ntransports, ncalls,
                   settledSince, nenv>>

TransportFulfil ==
    \E t \in TransportIds, r \in Responses :
        TransportSettle(t, [state |-> "fulfilled", response |-> r, error |-> NoError])

TransportReject ==
    \E t \in TransportIds :
        TransportSettle(t, [state |-> "rejected", response |-> NoResponse,
                            error |-> [call |-> t]])

\* ---------------------------------------------------------------- continuations
\* .then((response) => { this.updateTokens(response, {isRefreshing: true}); return response })
\* ThenChain is the value the callback returns, ThenStores the stores it leaves.
ThenChain(tr) ==
    [kind |-> "response", response |-> tr.response, error |-> NoError]

ThenStores(tr) == UpdateTokens(tr.response, TRUE, TRUE)

RunThen ==
    /\ jobs # <<>>
    /\ callers[Head(jobs)].pc = "then"
    /\ LET c == Head(jobs)
           tr == transports[callers[c].att]
           chain == ThenChain(tr)
           upd == ThenStores(tr)
       IN  /\ callers' = [callers EXCEPT ![c].pc = "finally", ![c].kind = chain.kind,
                                         ![c].response = chain.response,
                                         ![c].error = chain.error,
                                         ![c].updates = @ + 1]
           /\ token' = upd.token
           /\ header' = upd.header
           /\ refreshToken' = upd.refreshToken
    /\ jobs' = Append(Tail(jobs), Head(jobs))
    /\ UNCHANGED <<call, options, user, interceptor, refreshRequest, transports,
                   ntransports, ncalls, settledSince, nenv>>

\* .catch((error) => { this.$auth.callOnError(error, {method: 'refreshToken'});
\*                     return Promise.reject(error) })
\* CatchChain is the caller after the callback: the error reported and re-raised.
CatchChainSwallows(caller, tr) ==
    [caller EXCEPT !.kind = "undefined",
                   !.reported = tr.error, !.method = "refreshToken",
                   !.reports = @ + 1]

CatchChainUnreported(caller, tr) ==
    [caller EXCEPT !.kind = "error", !.error = tr.error]

CatchChain(caller, tr) ==
    [caller EXCEPT !.kind = "error", !.error = tr.error,
                   !.reported = tr.error, !.method = "refreshToken",
                   !.reports = @ + 1]

RunCatch ==
    /\ jobs # <<>>
    /\ callers[Head(jobs)].pc = "catch"
    /\ callers' = [callers EXCEPT ![Head(jobs)] =
                     [CatchChain(callers[Head(jobs)],
                                transports[callers[Head(jobs)].att])
                        EXCEPT !.pc = "finally"]]
    /\ jobs' = Append(Tail(jobs), Head(jobs))
    /\ UNCHANGED <<call, options, stores, refreshRequest, transports, ntransports, ncalls,
                   settledSince, nenv>>

\* .finally(() => { this.refreshRequest = null })
FinallySlotKept(slot, att) == slot

FinallySlot(slot, att) == 0

RunFinally ==
    /\ jobs # <<>>
    /\ callers[Head(jobs)].pc = "finally"
    /\ refreshRequest' = FinallySlot(refreshRequest, callers[Head(jobs)].att)
    /\ callers' = [callers EXCEPT ![Head(jobs)].pc = "settle"]
    /\ jobs' = Append(Tail(jobs), Head(jobs))
    /\ UNCHANGED <<call, options, stores, transports, ntransports, ncalls,
                   settledSince, nenv>>

\* The promise refreshTokens() returned settles with the result of the chain.
RunSettle ==
    /\ jobs # <<>>
    /\ callers[Head(jobs)].pc = "settle"
    /\ callers' = [callers EXCEPT ![Head(jobs)].pc = "done"]
    /\ jobs' = Tail(jobs)
    /\ settledSince' = TRUE
    /\ UNCHANGED <<call, options, stores, refreshRequest, transports, ntransports, ncalls,
                   nenv>>

\* ---------------------------------------------------------------- entry points
SetUserToken ==
    \E tok \in {Absent, "t1"}, rtok \in {Absent, "r1"} :
        /\ nenv < MaxEnv
        /\ jobs = <<>>
        /\ token' = TokenSet(tok)
        /\ header' = tok
        /\ refreshToken' = IF Truthy(rtok) THEN TokenSet(rtok) ELSE refreshToken
        /\ user' = TRUE
        /\ nenv' = nenv + 1
        /\ UNCHANGED <<call, options, interceptor, refreshRequest, transports, ntransports,
                       callers, ncalls, jobs, settledSince>>

Reset ==
    \E resetInterceptor \in BOOLEAN :
        /\ nenv < MaxEnv
        /\ jobs = <<>>
        /\ SchemeReset(resetInterceptor)
        /\ nenv' = nenv + 1
        /\ UNCHANGED <<call, options, header, refreshRequest, transports, ntransports,
                       callers, ncalls, jobs, settledSince>>

InitializeRequestInterceptor ==
    /\ ~interceptor
    /\ interceptor' = TRUE
    /\ UNCHANGED <<call, nenv, options, token, refreshToken, header, user, refreshRequest,
                   transports, ntransports, callers, ncalls, jobs, settledSince>>

\* Time passes the expiration instant of a stored token.
TokenExpires ==
    /\ nenv < MaxEnv
    /\ jobs = <<>>
    /\ Truthy(token.value) /\ ~token.expired
    /\ token' = [token EXCEPT !.expired = TRUE]
    /\ nenv' = nenv + 1
    /\ UNCHANGED <<call, options, refreshToken, header, user, interceptor, refreshRequest,
                   transports, ntransports, callers, ncalls, jobs, settledSince>>

RefreshTokenExpires ==
    /\ nenv < MaxEnv
    /\ jobs = <<>>
    /\ Truthy(refreshToken.value) /\ ~refreshToken.expired
    /\ refreshToken' = [refreshToken EXCEPT !.expired = TRUE]
    /\ nenv' = nenv + 1
    /\ UNCHANGED <<call, options, token, header, user, interceptor, refreshRequest,
                   transports, ntransports, callers, ncalls, jobs, settledSince>>

Next ==
    \/ RefreshTokensDisabled
    \/ RefreshTokensUnavailable
    \/ RefreshTokensExpired
    \/ RefreshTokensDispatch
    \/ TransportFulfil
    \/ TransportReject
    \/ RunThen
    \/ RunCatch
    \/ RunFinally
    \/ RunSettle
    \/ SetUserToken
    \/ Reset
    \/ InitializeRequestInterceptor
    \/ TokenExpires
    \/ RefreshTokenExpires

Spec == Init /\ [][Next]_vars

\* ---------------------------------------------------------------- fairness
\* The job queue of the runtime runs every queued callback, and the transport is
\* taken to settle every call it received.
Fairness ==
    /\ WF_vars(RunThen)
    /\ WF_vars(RunCatch)
    /\ WF_vars(RunFinally)
    /\ WF_vars(RunSettle)
    /\ WF_vars(TransportFulfil \/ TransportReject)

\* The coordinator on its own: the calls of refreshTokens(), the transport, the
\* callbacks and the expiry of the refresh token.  setUserToken and reset write
\* the stores alone; Spec has them.
FairNext ==
    \/ RefreshTokensDisabled
    \/ RefreshTokensUnavailable
    \/ RefreshTokensExpired
    \/ RefreshTokensDispatch
    \/ TransportFulfil
    \/ TransportReject
    \/ RunThen
    \/ RunCatch
    \/ RunFinally
    \/ RunSettle
    \/ RefreshTokenExpires

FairSpec == Init /\ [][FairNext]_vars /\ Fairness

\* ---------------------------------------------------------------- direct calls
\* The scheme in every configuration and every state of its stores, and one
\* call made on it: check, updateTokens, reset, a mount callback, or
\* refreshTokens.
AllOptions ==
    [endpoints : [refresh : BOOLEAN],
     token : [required : BOOLEAN],
     refreshToken : [required : BOOLEAN, tokenRequired : BOOLEAN,
                     data : {Absent, "refresh_token", "client_id"}],
     clientId : {Absent, "id1"},
     grantType : {Absent, "refresh_token"},
     autoLogout : BOOLEAN]

StoreStates(v) == {TokenReset, TokenSet(v), [TokenSet(v) EXCEPT !.expired = TRUE]}

CallInit ==
    /\ options \in AllOptions
    /\ token \in StoreStates("t1")
    /\ refreshToken \in StoreStates("abc")
    /\ header = token.value
    /\ user = Truthy(token.value)
    /\ interceptor = TRUE
    /\ refreshRequest = 0
    /\ transports = [t \in TransportIds |-> NoTransport]
    /\ ntransports = 0
    /\ callers = [c \in CallerIds |-> IdleCaller]
    /\ ncalls = 0
    /\ jobs = <<>>
    /\ settledSince = FALSE
    /\ nenv = 0
    /\ call = NoCall

NothingCalled == call = NoCall /\ ncalls = 0

scheme == <<options, refreshRequest, transports, ntransports, callers, ncalls,
            jobs, settledSince, nenv>>

CallCheck ==
    \E checkStatus \in BOOLEAN :
        /\ NothingCalled
        /\ call' = [NoCall EXCEPT !.op = "check", !.checkStatus = checkStatus,
                                  !.result = Check(checkStatus)]
        /\ UNCHANGED <<scheme, stores>>

CallUpdateTokens ==
    \E response \in Responses, isRefreshing \in BOOLEAN, updateOnRefresh \in BOOLEAN :
        /\ NothingCalled
        /\ LET upd == UpdateTokens(response, isRefreshing, updateOnRefresh)
           IN  /\ token' = upd.token
               /\ header' = upd.header
               /\ refreshToken' = upd.refreshToken
        /\ call' = [NoCall EXCEPT !.op = "updateTokens", !.response = response,
                                  !.isRefreshing = isRefreshing,
                                  !.updateOnRefresh = updateOnRefresh]
        /\ UNCHANGED <<scheme, user, interceptor>>

CallReset ==
    \E resetInterceptor \in BOOLEAN :
        /\ NothingCalled
        /\ SchemeReset(resetInterceptor)
        /\ call' = [NoCall EXCEPT !.op = "reset",
                                  !.resetInterceptor = resetInterceptor]
        /\ UNCHANGED <<scheme, header>>

\* mounted(): the callbacks handed to the stores.  A store calls its callback
\* when it observes its token expired.
ObservedExpired(store) == Truthy(TokenSync(store)) /\ TokenStatusExpired(store)

AutoLogoutAlways == TRUE

AutoLogout == options.autoLogout

TokenCallback ==
    /\ NothingCalled
    /\ ObservedExpired(token)
    /\ IF AutoLogout THEN AuthReset ELSE UNCHANGED <<user, token, refreshToken, interceptor>>
    /\ call' = [NoCall EXCEPT !.op = "tokenCallback"]
    /\ UNCHANGED <<scheme, header>>

RefreshTokenCallback ==
    /\ NothingCalled
    /\ ObservedExpired(refreshToken)
    /\ AuthReset
    /\ call' = [NoCall EXCEPT !.op = "refreshTokenCallback"]
    /\ UNCHANGED <<scheme, header>>

CallRefreshTokens ==
    /\ NothingCalled
    /\ \/ RefreshTokensDisabled
       \/ RefreshTokensUnavailable
       \/ RefreshTokensExpired
       \/ RefreshTokensDispatch

CallNext ==
    \/ CallCheck
    \/ CallUpdateTokens
    \/ CallReset
    \/ TokenCallback
    \/ RefreshTokenCallback
    \/ CallRefreshTokens

CallSpec == CallInit /\ [][CallNext]_vars

\* ================================================================ claims
\* A step in which refreshTokens() is called, and the record of that call after it.
Called == ncalls' = ncalls + 1

NewCaller == callers'[ncalls + 1]

\* A step in which the head of the job queue runs the callback of stage pc.
Runs(pc) == jobs # <<>> /\ callers[Head(jobs)].pc = pc /\ callers'[Head(jobs)].pc # pc

Dispatched == {c \in CallerIds : callers[c].att # 0}

Done(c) == callers[c].pc = "done"

\* The callers attached to one transport call settle with the identical outcome.
SameOutcome ==
    \A c \in Dispatched, d \in Dispatched :
        (Done(c) /\ Done(d) /\ callers[c].att = callers[d].att) =>
            /\ callers[c].kind = callers[d].kind
            /\ callers[c].response = callers[d].response
            /\ callers[c].error = callers[d].error

\* C1: the invocations that reach the dispatch while a transport call is pending
\* all take that call, so the transport receives no further call, and the
\* callers attached to one transport call settle with the identical outcome.
C1_SingleFlight ==
    [][/\ (Called /\ NewCaller.att # 0) =>
             \A t \in Outstanding : NewCaller.att = t /\ ntransports' = ntransports
       /\ SameOutcome']_vars

\* C2: at most one refresh transport call is outstanding, and while one is
\* outstanding the refreshRequest slot holds it.
C2_AtMostOneInFlight ==
    /\ Cardinality(Outstanding) <= 1
    /\ Outstanding # {} => refreshRequest \in Outstanding

\* C3 as stated: once a refresh promise has settled, the next invocation that
\* reaches the dispatch issues a new transport call.
C3_NextCallIssuesNew ==
    [][(settledSince /\ Called /\ NewCaller.att # 0) => NewCaller.issued]_vars

\* C3 as amended: an invocation that reaches the dispatch after a refresh promise
\* has settled never takes the transport call of that promise: the call it takes
\* was issued later (by itself, or by an invocation made in between).
C3_NextCallNotStale ==
    [][(Called /\ NewCaller.att # 0) =>
          \A d \in Dispatched : Done(d) => NewCaller.att > callers[d].att]_vars

\* A refresh promise has settled, and the last invocation, made after it, has
\* issued a transport call of its own that is still pending.
C3_Witness ==
    /\ ~settledSince
    /\ \E m \in Dispatched :
          /\ \A c \in Dispatched : c <= m
          /\ callers[m].pc = "wait" /\ callers[m].issued
          /\ Dispatched # {m}
          /\ \A c \in Dispatched \ {m} : Done(c)

\* C4: an invocation that reaches the dispatch when no transport call is pending
\* issues a fresh one (it never attaches to a settled call), and one that reaches
\* it while a call is pending shares that call.
C4_FreshAfterSettlement ==
    [][(Called /\ NewCaller.att # 0) =>
          IF Outstanding = {}
          THEN NewCaller.issued
          ELSE NewCaller.att \in Outstanding /\ ~NewCaller.issued]_vars

\* C5: with a refresh endpoint, both tokens present and the refresh token
\* expired, refreshTokens() rejects with the expired-session error after exactly
\* one session reset, and the transport is not invoked.
C5_ExpiredSession ==
    [][(/\ Called
        /\ options.endpoints.refresh
        /\ Truthy(token.value) /\ Truthy(refreshToken.value)
        /\ refreshToken.expired) =>
          /\ NewCaller.pc = "done" /\ NewCaller.kind = "expired"
          /\ NewCaller.resets = 1
          /\ NewCaller.att = 0 /\ ~NewCaller.issued
          /\ UNCHANGED <<transports, ntransports, refreshRequest>>
          /\ user' = FALSE /\ token' = TokenReset /\ refreshToken' = TokenReset]_vars

C5_Witness ==
    \E c \in CallerIds :
        /\ callers[c].kind = "expired" /\ callers[c].resets = 1
        /\ refreshRequest # 0
        /\ ~Truthy(token.value) /\ ~Truthy(refreshToken.value)

Failed(c) == callers[c].att # 0 /\ transports[callers[c].att].state = "rejected"

ErrorForwarded ==
    \A c \in CallerIds : Failed(c) =>
        /\ callers[c].pc \in {"finally", "settle", "done"} =>
              /\ callers[c].kind = "error"
              /\ callers[c].error = transports[callers[c].att].error
              /\ callers[c].reported = transports[callers[c].att].error
              /\ callers[c].method = "refreshToken"
        /\ callers[c].pc \in {"wait", "catch"} =>
              callers[c].kind = "none" /\ callers[c].reported = NoError

\* C6: a caller attached to a failed transport call has the error reported to
\* callOnError with method 'refreshToken' and carries that same error as its
\* rejection; the catch callback writes no store and issues no transport call.
C6_TransportFailure ==
    [][/\ Runs("catch") =>
             UNCHANGED <<token, refreshToken, header, user, transports, ntransports>>
       /\ ErrorForwarded']_vars

C6_Witness ==
    \E c \in CallerIds, d \in CallerIds :
        /\ c # d /\ Failed(c) /\ callers[d].att = callers[c].att
        /\ Done(c) /\ Done(d)
        /\ callers[c].kind = "error" /\ callers[d].reported = callers[c].error

\* C7 as stated: the then callback writes the access token of the response into
\* the Token store and the caller's promise resolves with that response.
C7_TokenFromResponse ==
    [][Runs("then") =>
          LET c == Head(jobs)
              response == transports[callers[c].att].response
          IN  /\ token' = TokenSet(response.token)
              /\ callers'[c].kind = "response"
              /\ callers'[c].response = response]_vars

\* C7 as amended: the then callback writes the access token of the response when
\* options.token.required is true and the opaque value true when it is false,
\* rotates the refresh token as updateTokens does with isRefreshing = true, and
\* the caller's promise resolves with that response.
C7_TokenUpdated ==
    [][Runs("then") =>
          LET c == Head(jobs)
              response == transports[callers[c].att].response
              rtok == IF options.refreshToken.required
                      THEN response.refresh_token ELSE Opaque
          IN  /\ token' = TokenSet(IF options.token.required
                                   THEN response.token ELSE Opaque)
              /\ refreshToken' = IF Truthy(rtok) THEN TokenSet(rtok) ELSE refreshToken
              /\ callers'[c].kind = "response"
              /\ callers'[c].response = response]_vars

C7_Witness ==
    \E c \in CallerIds :
        /\ Done(c) /\ callers[c].kind = "response"
        /\ transports[callers[c].att].response = callers[c].response
        /\ token.value = callers[c].response.token

\* C8: with no refresh endpoint, refreshTokens() resolves to undefined, issues no
\* transport call and leaves the stores, the header and the slot unchanged.
C8_RefreshDisabled ==
    [][(Called /\ ~options.endpoints.refresh) =>
          /\ NewCaller.pc = "done" /\ NewCaller.kind = "undefined"
          /\ NewCaller.att = 0 /\ ~NewCaller.issued /\ NewCaller.resets = 0
          /\ UNCHANGED <<token, refreshToken, header, user, interceptor,
                         refreshRequest, transports, ntransports>>]_vars

C8_Witness ==
    /\ ~options.endpoints.refresh
    /\ Truthy(token.value) /\ Truthy(refreshToken.value) /\ refreshToken.expired
    /\ \E c \in CallerIds : Done(c) /\ callers[c].kind = "undefined"

\* C9: with a refresh endpoint but the access token or the refresh token absent,
\* refreshTokens() resolves to undefined: no transport call, no session reset, the
\* header not cleared, the slot unchanged.
C9_TokensAbsent ==
    [][(/\ Called
        /\ options.endpoints.refresh
        /\ (~Truthy(token.value) \/ ~Truthy(refreshToken.value))) =>
          /\ NewCaller.pc = "done" /\ NewCaller.kind = "undefined"
          /\ NewCaller.att = 0 /\ ~NewCaller.issued /\ NewCaller.resets = 0
          /\ UNCHANGED <<token, refreshToken, header, user, interceptor,
                         refreshRequest, transports, ntransports>>]_vars

C9_Witness ==
    /\ options.endpoints.refresh
    /\ ~options.refreshToken.tokenRequired
    /\ ~Truthy(token.value) /\ Truthy(header)
    /\ \E c \in CallerIds : Done(c) /\ callers[c].kind = "undefined"

\* C10: check(false).valid is true exactly when both tokens are present, whatever
\* their expiry status.
C10_CheckPresence ==
    Check(FALSE).valid <=> (Truthy(token.value) /\ Truthy(refreshToken.value))

C10_Witness ==
    /\ Truthy(token.value) /\ Truthy(refreshToken.value)
    /\ refreshToken.expired
    /\ Check(FALSE).valid /\ ~Check(TRUE).valid

\* ---------------------------------------------------------------- direct calls
\* A step in which the method op is called directly.
Calls(op) == call = NoCall /\ call'.op = op

BothPresent == Truthy(token.value) /\ Truthy(refreshToken.value)

\* C11: with both tokens present check(true) reports refreshTokenExpired exactly
\* when the refresh token is expired, tokenExpired exactly when the refresh token
\* is not expired and the access token is, valid exactly when neither is expired;
\* the two expiry flags are never both set, valid is never set with either.
C11_ExpiryPriority ==
    (call.op = "check" /\ call.checkStatus /\ BothPresent) =>
        /\ call.result.refreshTokenExpired <=> refreshToken.expired
        /\ call.result.tokenExpired <=> (~refreshToken.expired /\ token.expired)
        /\ call.result.valid <=> (~refreshToken.expired /\ ~token.expired)
        /\ ~(call.result.tokenExpired /\ call.result.refreshTokenExpired)
        /\ ~(call.result.valid /\ call.result.tokenExpired)
        /\ ~(call.result.valid /\ call.result.refreshTokenExpired)

C11_Witness ==
    /\ call.op = "check" /\ call.checkStatus /\ BothPresent
    /\ token.expired /\ refreshToken.expired
    /\ call.result.refreshTokenExpired /\ ~call.result.tokenExpired

\* C12: with the access token or the refresh token absent check(true) returns
\* {valid: false, tokenExpired: false, refreshTokenExpired: false,
\* isRefreshable: true}, whatever the expiry status of the token that is present.
C12_AbsenceShortCircuits ==
    (call.op = "check" /\ call.checkStatus /\ ~BothPresent) =>
        call.result = [valid |-> FALSE, tokenExpired |-> FALSE,
                       refreshTokenExpired |-> FALSE, isRefreshable |-> TRUE]

C12_Witness ==
    /\ call.op = "check" /\ call.checkStatus
    /\ ~Truthy(token.value)
    /\ Truthy(refreshToken.value) /\ refreshToken.expired
    /\ ~call.result.valid /\ ~call.result.refreshTokenExpired
    /\ call.result.isRefreshable

\* C13 as stated: updateTokens(response, {isRefreshing: true, updateOnRefresh:
\* false}) leaves the stored refresh token unchanged and writes the access token
\* of the response.
C13_RefreshTokenKept ==
    [][(Calls("updateTokens") /\ call'.isRefreshing /\ ~call'.updateOnRefresh) =>
          /\ refreshToken' = refreshToken
          /\ token' = TokenSet(call'.response.token)]_vars

\* C13 as amended: updateTokens(response, {isRefreshing: true, updateOnRefresh:
\* false}) leaves the stored refresh token unchanged, and writes as access token
\* the token of the response when options.token.required is true and the opaque
\* value true when it is false.
C13_RefreshTokenKeptTokenUpdated ==
    [][(Calls("updateTokens") /\ call'.isRefreshing /\ ~call'.updateOnRefresh) =>
          /\ refreshToken' = refreshToken
          /\ token' = TokenSet(IF options.token.required
                                   THEN call'.response.token ELSE Opaque)]_vars

C13_Witness ==
    /\ call.op = "updateTokens" /\ call.isRefreshing /\ ~call.updateOnRefresh
    /\ options.refreshToken.required
    /\ call.response.refresh_token = "r2"
    /\ refreshToken = [value |-> "abc", expired |-> TRUE]
    /\ token.value = call.response.token

\* C14 as stated: updateTokens(response, {isRefreshing: false}) writes the refresh
\* token of the response into the store when the response has one, and leaves
\* the stored refresh token unchanged when it has none.
C14_RefreshTokenOverwritten ==
    [][(Calls("updateTokens") /\ ~call'.isRefreshing) =>
          refreshToken' = IF Truthy(call'.response.refresh_token)
                          THEN TokenSet(call'.response.refresh_token)
                          ELSE refreshToken]_vars

\* C14 as amended: with options.refreshToken.required true,
\* updateTokens(response, {isRefreshing: false}) writes the refresh token of the
\* response when the response has one and leaves the store unchanged when it has
\* none; with options.refreshToken.required false it writes the opaque value true
\* whatever the response holds.  Either way updateOnRefresh is not consulted.
C14_RefreshTokenWritten ==
    [][(Calls("updateTokens") /\ ~call'.isRefreshing) =>
          refreshToken' =
              IF ~options.refreshToken.required THEN TokenSet(Opaque)
              ELSE IF Truthy(call'.response.refresh_token)
                   THEN TokenSet(call'.response.refresh_token)
              ELSE refreshToken]_vars

C14_Witness ==
    /\ call.op = "updateTokens" /\ ~call.isRefreshing /\ ~call.updateOnRefresh
    /\ options.refreshToken.required
    /\ call.response.refresh_token = "r2"
    /\ refreshToken = TokenSet("r2")

\* C15: reset() sets the user to false and clears both token stores, so that
\* check(false).valid is false right after it; the request interceptor is reset
\* exactly when resetInterceptor is true.
C15_Reset ==
    [][Calls("reset") =>
          /\ user' = FALSE
          /\ token' = TokenReset /\ refreshToken' = TokenReset
          /\ (~Check(FALSE).valid)'
          /\ call'.resetInterceptor => interceptor' = FALSE
          /\ ~call'.resetInterceptor => interceptor' = interceptor]_vars

C15_Witness ==
    /\ call.op = "reset" /\ ~call.resetInterceptor
    /\ Truthy(header)
    /\ ~user /\ token = TokenReset /\ refreshToken = TokenReset
    /\ interceptor

\* The body of the request a refreshTokens() step issued.
IssuedBody == transports'[NewCaller.att].body

RefreshTokenInBody ==
    options.refreshToken.required /\ Truthy(options.refreshToken.data)

\* C16 as stated: the body holds the stored refresh token under the configured
\* data field exactly when refreshToken.required is true and a data field is
\* configured, client_id exactly when clientId is configured, grant_type =
\* 'refresh_token' exactly when grantType is configured, and nothing else.
C16_BodyAsConfigured ==
    [][(Called /\ NewCaller.issued) =>
          /\ RefreshTokenInBody =>
                /\ options.refreshToken.data \in DOMAIN IssuedBody
                /\ IssuedBody[options.refreshToken.data] = refreshToken.value
          /\ "client_id" \in DOMAIN IssuedBody <=> Truthy(options.clientId)
          /\ "grant_type" \in DOMAIN IssuedBody <=> Truthy(options.grantType)
          /\ "client_id" \in DOMAIN IssuedBody =>
                IssuedBody["client_id"] = options.clientId
          /\ "grant_type" \in DOMAIN IssuedBody =>
                IssuedBody["grant_type"] = "refresh_token"
          /\ \A k \in DOMAIN IssuedBody :
                /\ IssuedBody[k] # Undefined
                /\ \/ k \in {"client_id", "grant_type"}
                   \/ RefreshTokenInBody /\ k = options.refreshToken.data]_vars

\* C16 as amended: the keys of the body are the configured data field when
\* refreshToken.required is true and a data field is configured, client_id when
\* clientId is configured, grant_type when grantType is configured, and no
\* other; grant_type holds 'refresh_token', client_id holds clientId, and the
\* data field holds the stored refresh token unless the data field is itself
\* named client_id or grant_type and that option is configured, whose value
\* then takes the key.
C16_BodyKeys ==
    [][(Called /\ NewCaller.issued) =>
          /\ DOMAIN IssuedBody =
                (IF RefreshTokenInBody THEN {options.refreshToken.data} ELSE {})
                \cup (IF Truthy(options.clientId) THEN {"client_id"} ELSE {})
                \cup (IF Truthy(options.grantType) THEN {"grant_type"} ELSE {})
          /\ \A k \in DOMAIN IssuedBody :
                IssuedBody[k] =
                    IF k = "grant_type" /\ Truthy(options.grantType)
                    THEN "refresh_token"
                    ELSE IF k = "client_id" /\ Truthy(options.clientId)
                         THEN options.clientId
                    ELSE refreshToken.value]_vars

C16_Witness ==
    /\ options.refreshToken.required /\ options.refreshToken.data = "refresh_token"
    /\ options.clientId = "id1" /\ Truthy(options.grantType)
    /\ refreshToken.value = "abc"
    /\ \E t \in TransportIds :
          /\ transports[t].state = "pending"
          /\ transports[t].body = [refresh_token |-> "abc", client_id |-> "id1",
                                    grant_type |-> "refresh_token"]

FullReset ==
    /\ user' = FALSE
    /\ token' = TokenReset /\ refreshToken' = TokenReset
    /\ interceptor' = FALSE

\* C17: the access-token callback registered on mount forces a full session
\* reset exactly when autoLogout is true and does nothing otherwise; the
\* refresh-token callback forces one for every value of autoLogout.
C17_ExpiryCallbacks ==
    [][/\ Calls("tokenCallback") =>
             IF options.autoLogout THEN FullReset ELSE UNCHANGED stores
       /\ Calls("refreshTokenCallback") => FullReset]_vars

C17_Witness ==
    /\ call.op = "refreshTokenCallback"
    /\ ~options.autoLogout
    /\ Truthy(header)
    /\ ~user /\ token = TokenReset /\ refreshToken = TokenReset /\ ~interceptor

\* ---------------------------------------------------------------- settlement
\* C18: when every transport call settles, every refreshTokens() promise settles
\* and a refreshRequest slot that holds a call is emptied again, after a
\* fulfilment as after a rejection.  A promise once made stays made and once
\* settled stays settled, so "made leads to settled" is "again and again not
\* made or settled"; "held leads to empty" is "again and again empty".
C18_SlotReleased ==
    /\ \A c \in CallerIds : []<>(callers[c].pc = "idle" \/ Done(c))
    /\ []<>(refreshRequest = 0)

C18_Witness ==
    /\ refreshRequest = 0
    /\ jobs = <<>>
    /\ \E c \in Dispatched, d \in Dispatched :
          /\ Done(c) /\ callers[c].kind = "response"
          /\ Done(d) /\ callers[d].kind = "error"

StoresCleared == ~Truthy(token.value) /\ ~Truthy(refreshToken.value)

\* C19: once both token stores are cleared they stay cleared until setUserToken
\* writes them; no callback of a refresh already in flight writes them back.
C19_StoresStayCleared ==
    [][(StoresCleared /\ ~StoresCleared') => nenv' = nenv + 1]_vars

\* ---------------------------------------------------------------- shared calls
SharedBy(t) == {c \in CallerIds : callers[c].att = t}

\* The callers whose then or catch callback has run.
Reacted(t) == {c \in SharedBy(t) : callers[c].pc \in {"finally", "settle", "done"}}

RECURSIVE Updates(_)
Updates(S) ==
    IF S = {} THEN 0
    ELSE LET c == CHOOSE x \in S : TRUE
         IN  callers[c].updates + Updates(S \ {c})

RECURSIVE Reports(_)
Reports(S) ==
    IF S = {} THEN 0
    ELSE LET c == CHOOSE x \in S : TRUE
         IN  callers[c].reports + Reports(S \ {c})

\* Every caller of a settled call whose callback has run made one updateTokens
\* call with the response of the call, or one callOnError call with its error.
OncePerCaller ==
    \A t \in TransportIds :
        /\ Updates(SharedBy(t)) =
              IF transports[t].state = "fulfilled" THEN Cardinality(Reacted(t)) ELSE 0
        /\ Reports(SharedBy(t)) =
              IF transports[t].state = "rejected" THEN Cardinality(Reacted(t)) ELSE 0
        /\ \A c \in Reacted(t) :
              IF transports[t].state = "fulfilled"
              THEN /\ callers[c].updates = 1
                   /\ callers[c].response = transports[t].response
              ELSE /\ callers[c].reports = 1
                   /\ callers[c].reported = transports[t].error

====
